---- MODULE Spec2Model ----
(***************************************************************************)
(* Model of InstaPRO: the content knowledge store (src/Database.py,        *)
(* class RAGDatabase) and the next-post recommender (src/app.py, class     *)
(* InstagramPostRecommender).                                              *)
(*                                                                         *)
(* Strings whose characters matter are modelled by what the code does to   *)
(* them: a date string 'YYYY-MM-DD' is its sequence of eight digits        *)
(* (compared as Python compares str, parsed as strptime parses it), the    *)
(* hashtags metadata is the token sequence json.dumps writes, and a        *)
(* message text is a sequence of segments (see "Message texts").           *)
(***************************************************************************)
EXTENDS Integers, Sequences, FiniteSets, TLC

VARIABLES
    collection,     \* self.collection: the ChromaDB records, in insertion order
    ret,            \* the last call on the store or analyzer: its arguments and return value
    session,        \* state of the deliberation session driven by initiate_chat
    groupchat,      \* self.groupchat.messages, the transcript
    recommendations, \* what get_next_post_recommendations handed to its caller
    callers         \* add_post calls in progress: per caller, the id drawn and the post

vars == <<collection, ret, session, groupchat, recommendations, callers>>

(***************************************************************************)
(* Bounds of the model.                                                    *)
(***************************************************************************)
MaxPosts == 3
MaxLimit == 2
MaxTurns == 3
MaxRhythmPosts == 4

(***************************************************************************)
(* Generic helpers.                                                        *)
(***************************************************************************)
Min(a, b) == IF a <= b THEN a ELSE b

Range(s) == {s[i] : i \in DOMAIN s}

RECURSIVE SumSeq(_)
SumSeq(s) == IF s = <<>> THEN 0 ELSE Head(s) + SumSeq(Tail(s))

\* s[:n] for n >= 0
Take(s, n) == SubSeq(s, 1, Min(n, Len(s)))

\* the distinct elements of a sequence, each at its first appearance (the key
\* order of a dict filled by a loop)
RECURSIVE FirstSeen(_, _)
FirstSeen(keys, seen) ==
    IF keys = <<>> THEN <<>>
    ELSE IF Head(keys) \in seen THEN FirstSeen(Tail(keys), seen)
    ELSE << Head(keys) >> \o FirstSeen(Tail(keys), seen \cup {Head(keys)})

RECURSIVE Gcd(_, _)
Gcd(a, b) == IF b = 0 THEN a ELSE Gcd(b, a % b)

Abs(a) == IF a < 0 THEN 0 - a ELSE a

\* The exact value of the Python quotient a / b (b > 0), in lowest terms.
Div(a, b) ==
    LET g == Gcd(Abs(a), b)
    IN  [num |-> a \div g, den |-> b \div g]

\* sum(xs) / len(xs)
Mean(xs) == Div(SumSeq(xs), Len(xs))

RatGreater(p, q) == p.num * q.den > q.num * p.den

(***************************************************************************)
(* Date strings.  strftime('%Y-%m-%d') writes four year digits, two month  *)
(* digits and two day digits; the dashes sit at fixed places and are left  *)
(* out of the digit sequence.                                              *)
(***************************************************************************)
DateStr(y, m, d) ==
    << y \div 1000, (y \div 100) % 10, (y \div 10) % 10, y % 10,
       m \div 10, m % 10, d \div 10, d % 10 >>

\* Python's str comparison a > b: the first differing character decides.
RECURSIVE StrGreater(_, _)
StrGreater(a, b) ==
    IF a = <<>> \/ b = <<>> THEN a # <<>> /\ b = <<>>
    ELSE IF Head(a) # Head(b) THEN Head(a) > Head(b)
    ELSE StrGreater(Tail(a), Tail(b))

\* datetime.strptime(s, '%Y-%m-%d')
Strptime(s) ==
    [ year  |-> s[1] * 1000 + s[2] * 100 + s[3] * 10 + s[4],
      month |-> s[5] * 10 + s[6],
      day   |-> s[7] * 10 + s[8] ]

IsLeap(y) == (y % 4 = 0 /\ y % 100 # 0) \/ y % 400 = 0

DaysInMonth(y, m) ==
    IF m = 2 THEN (IF IsLeap(y) THEN 29 ELSE 28)
    ELSE IF m \in {4, 6, 9, 11} THEN 30 ELSE 31

RECURSIVE DaysBeforeMonth(_, _)
DaysBeforeMonth(y, m) ==
    IF m = 1 THEN 0 ELSE DaysBeforeMonth(y, m - 1) + DaysInMonth(y, m - 1)

\* datetime.toordinal(): the day number on which differences of dates are taken
ToOrdinal(dt) ==
    LET y == dt.year - 1
    IN  y * 365 + y \div 4 - y \div 100 + y \div 400
        + DaysBeforeMonth(dt.year, dt.month) + dt.day

(***************************************************************************)
(* The hashtags metadata field: json.dumps of a list of strings, and       *)
(* json.loads of it.  The text is a sequence of tokens: the brackets, the  *)
(* separators, and one quoted string literal per hashtag.                  *)
(***************************************************************************)
Quoted(tag) == [lit |-> tag]

RECURSIVE JsonItems(_)
JsonItems(tags) ==
    IF tags = <<>> THEN <<>>
    ELSE IF Len(tags) = 1 THEN << Quoted(tags[1]) >>
    ELSE << Quoted(tags[1]), [lit |-> ", "] >> \o JsonItems(Tail(tags))

\* json.dumps(hashtags)
json_dumps_of_set(tags) ==
    << [lit |-> "["] >> \o JsonItems(FirstSeen(tags, {})) \o << [lit |-> "]"] >>

json_dumps(tags) == << [lit |-> "["] >> \o JsonItems(tags) \o << [lit |-> "]"] >>

\* every second token between the brackets is a string literal
json_loads(text) ==
    LET inner == SubSeq(text, 2, Len(text) - 1)
    IN  [i \in 1..((Len(inner) + 1) \div 2) |-> inner[2 * i - 1].lit]

(***************************************************************************)
(* Inputs of the store operations.                                         *)
(***************************************************************************)
Post(caption, type, engagement, hashtags, date) ==
    [ caption |-> caption, type |-> type, engagement |-> engagement,
      hashtags |-> hashtags, date_posted |-> date ]

PostInputs ==
    { Post("Storefront", "satisfying_video", 9999, <<"#rare", "#rare">>, DateStr(2024, 1, 1)),
      Post("Pro tip", "educational", 100, <<"#common">>, DateStr(2024, 1, 5)),
      Post("Before and after", "educational", 200, <<"#common", "#clean">>, DateStr(2024, 1, 3)),
      Post("", "promotion", 0 - 5, <<>>, DateStr(2024, 1, 5)) }

Ids == 1..MaxPosts

UsedIds == {collection[i].id : i \in DOMAIN collection}

NoCall == [op |-> "none"]

(***************************************************************************)
(* RAGDatabase.  The ChromaDB collection keeps, per record, the id, the    *)
(* document (the caption) and the metadata written by add_post;            *)
(* collection.get() hands the records back in insertion order.             *)
(***************************************************************************)

\* a write that takes the place of the newest record instead of adding one
collection_add_replacing_newest(post_id, post_data) ==
    LET added == Append(collection,
                        [ id       |-> post_id,
                          document |-> post_data.caption,
                          metadata |-> [ type        |-> post_data.type,
                                         engagement  |-> post_data.engagement,
                                         hashtags    |-> json_dumps(post_data.hashtags),
                                         date_posted |-> post_data.date_posted ] ])
    IN  IF collection = <<>>
        THEN added
        ELSE SubSeq(collection, 1, Len(collection) - 1) \o <<added[Len(added)]>>

\* collection.add(embeddings, documents, metadatas, ids) as add_post calls it
collection_add(post_id, post_data) ==
    Append(collection,
           [ id       |-> post_id,
             document |-> post_data.caption,
             metadata |-> [ type        |-> post_data.type,
                            engagement  |-> post_data.engagement,
                            hashtags    |-> json_dumps(post_data.hashtags),
                            date_posted |-> post_data.date_posted ] ])

\* add_post: a fresh uuid4, then the write; no check of the input precedes it
add_post(post_data) ==
    /\ Len(collection) < MaxPosts
    /\ \E post_id \in Ids \ UsedIds :
          /\ collection' = collection_add(post_id, post_data)
          /\ ret' = [op |-> "add_post", args |-> post_data, value |-> post_id]
    /\ UNCHANGED <<session, groupchat, recommendations, callers>>

\* get_all_posts over a given collection content
AllPosts(coll) ==
    [ i \in DOMAIN coll |->
        [ id          |-> coll[i].id,
          caption     |-> coll[i].document,
          type        |-> coll[i].metadata.type,
          engagement  |-> coll[i].metadata.engagement,
          hashtags    |-> json_loads(coll[i].metadata.hashtags),
          date_posted |-> coll[i].metadata.date_posted ] ]

get_all_posts == AllPosts(collection)

\* get_post_count: collection.count()
get_post_count == Len(collection)

\* list.sort(key=date_posted, reverse=True) taken one element at a time: an
\* element goes behind every element whose key is not smaller, so equal keys
\* keep their order (Python's sort is stable, also under reverse=True).
RECURSIVE InsertByDate_ties_reversed(_, _)
InsertByDate_ties_reversed(sorted, p) ==
    IF sorted = <<>> THEN <<p>>
    ELSE IF StrGreater(Head(sorted).date_posted, p.date_posted)
         THEN <<Head(sorted)>> \o InsertByDate_ties_reversed(Tail(sorted), p)
         ELSE <<p>> \o sorted

RECURSIVE InsertByDate(_, _)
InsertByDate(sorted, p) ==
    IF sorted = <<>> THEN <<p>>
    ELSE IF StrGreater(p.date_posted, Head(sorted).date_posted)
         THEN <<p>> \o sorted
         ELSE <<Head(sorted)>> \o InsertByDate(Tail(sorted), p)

RECURSIVE SortByDateDesc(_)
SortByDateDesc(posts) ==
    IF posts = <<>> THEN <<>>
    ELSE InsertByDate(SortByDateDesc(SubSeq(posts, 1, Len(posts) - 1)), posts[Len(posts)])

\* get_recent_posts(limit), limit >= 0
get_recent_posts(limit) == Take(SortByDateDesc(get_all_posts), limit)

CallGetAllPosts ==
    /\ ret' = [op |-> "get_all_posts", value |-> get_all_posts]
    /\ UNCHANGED <<collection, session, groupchat, recommendations, callers>>

CallGetPostCount ==
    /\ ret' = [op |-> "get_post_count", value |-> get_post_count]
    /\ UNCHANGED <<collection, session, groupchat, recommendations, callers>>

CallGetRecentPosts ==
    /\ \E limit \in 0..MaxLimit :
          ret' = [op |-> "get_recent_posts", args |-> limit, value |-> get_recent_posts(limit)]
    /\ UNCHANGED <<collection, session, groupchat, recommendations, callers>>

(***************************************************************************)
(* get_content_analysis.  A Python dict is modelled as the sequence of its *)
(* items in insertion order, each item a record with its key.              *)
(***************************************************************************)

\* the (hashtag, engagement) pairs in the order the two nested loops visit them
RECURSIVE TagsOf(_, _)
TagsOf(tags, engagement) ==
    IF tags = <<>> THEN <<>>
    ELSE << [tag |-> Head(tags), engagement |-> engagement] >> \o TagsOf(Tail(tags), engagement)

RECURSIVE HashtagUses(_)
HashtagUses(posts) ==
    IF posts = <<>> THEN <<>>
    ELSE TagsOf(Head(posts).hashtags, Head(posts).engagement) \o HashtagUses(Tail(posts))

\* hashtag_engagement[hashtag]: one entry per append in the loop
RECURSIVE EngagementsOf(_, _)
EngagementsOf(uses, tag) ==
    IF uses = <<>> THEN <<>>
    ELSE (IF Head(uses).tag = tag THEN << Head(uses).engagement >> ELSE <<>>)
         \o EngagementsOf(Tail(uses), tag)

RECURSIVE TypeEngagements(_, _)
TypeEngagements(posts, type) ==
    IF posts = <<>> THEN <<>>
    ELSE (IF Head(posts).type = type THEN << Head(posts).engagement >> ELSE <<>>)
         \o TypeEngagements(Tail(posts), type)

\* sorted(items, key=value, reverse=True): stable, descending by value
RECURSIVE InsertByValue(_, _)
InsertByValue(sorted, item) ==
    IF sorted = <<>> THEN <<item>>
    ELSE IF RatGreater(item.value, Head(sorted).value)
         THEN <<item>> \o sorted
         ELSE <<Head(sorted)>> \o InsertByValue(Tail(sorted), item)

RECURSIVE SortByValueDesc(_)
SortByValueDesc(items) ==
    IF items = <<>> THEN <<>>
    ELSE InsertByValue(SortByValueDesc(SubSeq(items, 1, Len(items) - 1)), items[Len(items)])

\* how many list entries make a hashtag count as "used multiple times"
MinUses == 2

\* the size of the two hashtag rankings
TopN == 10

\* avg_engagement_by_hashtag: the hashtags whose engagement list has at least
\* MinUses entries, each with the mean of that list
RECURSIVE AvgByHashtag(_, _)
AvgByHashtag(keys, uses) ==
    IF keys = <<>> THEN <<>>
    ELSE (IF Len(EngagementsOf(uses, Head(keys))) >= MinUses
          THEN << [key |-> Head(keys), value |-> Mean(EngagementsOf(uses, Head(keys)))] >>
          ELSE <<>>)
         \o AvgByHashtag(Tail(keys), uses)

ContentAnalysis(posts) ==
    IF posts = <<>> THEN <<>>
    ELSE
      LET uses     == HashtagUses(posts)
          hashtags == FirstSeen([i \in DOMAIN uses |-> uses[i].tag], {})
          types    == FirstSeen([i \in DOMAIN posts |-> posts[i].type], {})
      IN  [ total_posts |-> Len(posts),
            avg_engagement |-> Mean([i \in DOMAIN posts |-> posts[i].engagement]),
            type_distribution |->
                [i \in DOMAIN types |->
                    [key |-> types[i], value |-> Len(TypeEngagements(posts, types[i]))]],
            avg_engagement_by_type |->
                [i \in DOMAIN types |->
                    [key |-> types[i], value |-> Mean(TypeEngagements(posts, types[i]))]],
            top_hashtags |->
                Take(SortByValueDesc(
                        [i \in DOMAIN hashtags |->
                            [key |-> hashtags[i],
                             value |-> Div(Len(EngagementsOf(uses, hashtags[i])), 1)]]),
                     TopN),
            best_performing_hashtags |->
                Take(SortByValueDesc(AvgByHashtag(hashtags, uses)), TopN) ]

get_content_analysis == ContentAnalysis(get_all_posts)

CallGetContentAnalysis ==
    /\ ret' = [op |-> "get_content_analysis", value |-> get_content_analysis]
    /\ UNCHANGED <<collection, session, groupchat, recommendations, callers>>

(***************************************************************************)
(* The `add` command of the CLI (add_existing_post).                       *)
(***************************************************************************)

\* datetime.now().date() at the time of the run that is modelled
Today == [year |-> 2024, month |-> 1, day |-> 20]

\* the calendar day before dt
PrevDay(dt) ==
    IF dt.day > 1 THEN [dt EXCEPT !.day = dt.day - 1]
    ELSE IF dt.month > 1
         THEN [dt EXCEPT !.month = dt.month - 1, !.day = DaysInMonth(dt.year, dt.month - 1)]
         ELSE [year |-> dt.year - 1, month |-> 12, day |-> 31]

RECURSIVE DaysBefore(_, _)
DaysBefore(dt, n) == IF n = 0 THEN dt ELSE DaysBefore(PrevDay(dt), n - 1)

\* (datetime.now() - timedelta(days=days_ago)).strftime("%Y-%m-%d"), days_ago >= 0
DateDaysAgo(days_ago) ==
    LET dt == DaysBefore(Today, days_ago)
    IN  DateStr(dt.year, dt.month, dt.day)

\* [tag.strip() for tag in hashtags.split(",") if tag.strip()]: a piece of the
\* split is its text and whether blanks surround it; strip() drops the
\* blanks, and a piece with no text is left out
RECURSIVE HashtagList(_)
HashtagList(pieces) ==
    IF pieces = <<>> THEN <<>>
    ELSE (IF Head(pieces).text = "" THEN <<>> ELSE << Head(pieces).text >>)
         \o HashtagList(Tail(pieces))

Piece(text, blanks) == [text |-> text, blanks |-> blanks]

CliInputs ==
    { [caption |-> "Pro tip", post_type |-> "educational", engagement |-> 100,
       hashtags |-> << Piece("#common", FALSE) >>, days_ago |-> 15],
      [caption |-> "", post_type |-> "promotion", engagement |-> 0 - 5,
       hashtags |-> << Piece("", FALSE) >>, days_ago |-> 15],
      [caption |-> "Before and after", post_type |-> "educational", engagement |-> 200,
       hashtags |-> << Piece("#common", FALSE), Piece("#clean", TRUE), Piece("", TRUE) >>,
       days_ago |-> 17] }

add_existing_post(in) ==
    LET post_data == Post(in.caption, in.post_type, in.engagement,
                          HashtagList(in.hashtags), DateDaysAgo(in.days_ago))
    IN  /\ Len(collection) < MaxPosts
        /\ \E post_id \in Ids \ UsedIds :
              /\ collection' = collection_add(post_id, post_data)
              /\ ret' = [op |-> "add_existing_post", args |-> post_data, value |-> post_id,
                         total_posts |-> Len(collection')]
        /\ UNCHANGED <<session, groupchat, recommendations, callers>>

(***************************************************************************)
(* search_similar_content.  The embedding model and the index are outside  *)
(* the program: a query is modelled by the distance the index measures     *)
(* from it to each record, and collection.query returns the n_results      *)
(* nearest records, nearest first (all of them when there are fewer).      *)
(***************************************************************************)
Distances == {0, 1, 2}

RECURSIVE InsertByDistance(_, _)
InsertByDistance(sorted, hit) ==
    IF sorted = <<>> THEN <<hit>>
    ELSE IF hit.distance < Head(sorted).distance
         THEN <<hit>> \o sorted
         ELSE <<Head(sorted)>> \o InsertByDistance(Tail(sorted), hit)

RECURSIVE NearestFirst(_)
NearestFirst(hits) ==
    IF hits = <<>> THEN <<>>
    ELSE InsertByDistance(NearestFirst(SubSeq(hits, 1, Len(hits) - 1)), hits[Len(hits)])

collection_query(dist, n_results) ==
    Take(NearestFirst([i \in DOMAIN collection |->
                          [record |-> collection[i], distance |-> dist[i]]]),
         n_results)

\* similarity_score = 1 - results['distances'][0][i]
similarity_score_is_distance(distance) == distance

similarity_score(distance) == 1 - distance

search_similar_content(dist, limit) ==
    LET results == collection_query(dist, limit)
    IN  [ i \in DOMAIN results |->
            [ post_data |->
                [ caption     |-> results[i].record.document,
                  type        |-> results[i].record.metadata.type,
                  engagement  |-> results[i].record.metadata.engagement,
                  hashtags    |-> json_loads(results[i].record.metadata.hashtags),
                  date_posted |-> results[i].record.metadata.date_posted ],
              similarity_score |-> similarity_score(results[i].distance) ] ]

\* the call whose arguments were drawn in InitSearch; `results` keeps what the
\* index returned (the ids are not part of the value the method returns)
CallSearchSimilarContent ==
    /\ ret.op = "pending"
    /\ ret' = [op |-> "search_similar_content",
               args |-> ret.args,
               results |-> collection_query(ret.args.dist, ret.args.limit),
               value |-> search_similar_content(ret.args.dist, ret.args.limit)]
    /\ UNCHANGED <<collection, session, groupchat, recommendations, callers>>

(***************************************************************************)
(* Specifications of the store.                                            *)
(***************************************************************************)
NoSession == "NOT_STARTED"
NoRecommendations == [kind |-> "none"]

\* no add_post call is in progress
NoCallers == <<>>

Init ==
    /\ collection = <<>>
    /\ ret = NoCall
    /\ session = NoSession
    /\ groupchat = <<>>
    /\ recommendations = NoRecommendations
    /\ callers = NoCallers

Next ==
    \/ \E post_data \in PostInputs : add_post(post_data)
    \/ \E in \in CliInputs : add_existing_post(in)
    \/ CallGetAllPosts
    \/ CallGetPostCount
    \/ CallGetRecentPosts
    \/ CallGetContentAnalysis

Spec == Init /\ [][Next]_vars

\* the stores on which the search is run: up to MaxPosts records
SearchPosts ==
    { p \in PostInputs : p.caption \in {"Pro tip", ""} }

RECURSIVE PostLists(_)
PostLists(n) ==
    IF n = 0 THEN { <<>> }
    ELSE PostLists(n - 1) \cup
         { Append(ps, p) : ps \in { q \in PostLists(n - 1) : Len(q) = n - 1 }, p \in SearchPosts }

StoreOf(posts) ==
    [ i \in DOMAIN posts |->
        [ id       |-> i,
          document |-> posts[i].caption,
          metadata |-> [ type        |-> posts[i].type,
                         engagement  |-> posts[i].engagement,
                         hashtags    |-> json_dumps(posts[i].hashtags),
                         date_posted |-> posts[i].date_posted ] ] ]

SearchCalls(store) ==
    { [op |-> "pending", args |-> [limit |-> limit, dist |-> dist]] :
         limit \in 1..MaxLimit, dist \in [DOMAIN store -> Distances] }

InitSearch ==
    /\ collection \in { StoreOf(ps) : ps \in PostLists(MaxPosts) }
    /\ ret \in SearchCalls(collection)
    /\ session = NoSession
    /\ groupchat = <<>>
    /\ recommendations = NoRecommendations
    /\ callers = NoCallers

NextSearch == CallSearchSimilarContent

SpecSearch == InitSearch /\ [][NextSearch]_vars

(***************************************************************************)
(* Properties of the store (checked under Spec).                      *)
(***************************************************************************)
AddStep == ret'.op \in {"add_post", "add_existing_post"} /\ ret' # ret

Malformed(post_data) == post_data.caption = "" \/ post_data.engagement < 0

\* C1: every successful add_post raises get_post_count() by exactly 1, and
\* get_all_posts() then holds a record with the returned id whose caption,
\* type, engagement, date_posted and hashtags (same elements, same order) are
\* the values passed in.
C1_AddRoundTrips ==
    [][ AddStep =>
          /\ get_post_count' = get_post_count + 1
          /\ \E i \in DOMAIN get_all_posts' :
                LET p == get_all_posts'[i] IN
                /\ p.id = ret'.value
                /\ p.caption = ret'.args.caption
                /\ p.type = ret'.args.type
                /\ p.engagement = ret'.args.engagement
                /\ p.date_posted = ret'.args.date_posted
                /\ p.hashtags = ret'.args.hashtags ]_vars

\* an add to a store that already holds records, of a post with several
\* hashtags, one of them repeated
C1_Witness ==
    /\ ret.op = "add_post"
    /\ Len(collection) >= 2
    /\ ret.args.hashtags = <<"#rare", "#rare">>
    /\ collection[Len(collection)].id = ret.value

\* C4: add_post rejects an empty caption or a negative engagement before
\* anything is written, so such a call leaves the record set and the count
\* unchanged.
C4_MalformedRejected ==
    [][ (AddStep /\ Malformed(ret'.args)) =>
          (collection' = collection /\ get_post_count' = get_post_count) ]_vars

\* the records of the store that carry a hashtag
Carrying(tag) ==
    SelectSeq(get_all_posts, LAMBDA p : tag \in Range(p.hashtags))

\* C5: best_performing_hashtags holds only hashtags that appear on at least 2
\* records, each with the mean engagement of the records carrying it.
C5_BestHashtagsOnTwoRecords ==
    (ret.op = "get_content_analysis" /\ ret.value # <<>>) =>
        \A i \in DOMAIN ret.value.best_performing_hashtags :
            LET item == ret.value.best_performing_hashtags[i]
                on   == Carrying(item.key)
            IN  /\ Len(on) >= 2
                /\ item.value = Mean([j \in DOMAIN on |-> on[j].engagement])

PositionOf(id) == CHOOSE i \in DOMAIN collection : collection[i].id = id

\* C7: get_recent_posts(n) returns the min(n, count) records with the latest
\* date_posted, latest first, records of equal date in retrieval order; for
\* dates 2024-01-01, 2024-01-05, 2024-01-03 and n = 2 it returns the 01-05
\* record and then the 01-03 record.
C7_RecentPosts ==
    ret.op = "get_recent_posts" =>
        LET r   == ret.value
            all == get_all_posts
            in  == {r[i].id : i \in DOMAIN r}
        IN  /\ Len(r) = Min(ret.args, get_post_count)
            /\ Cardinality(in) = Len(r)
            /\ \A i \in DOMAIN r : r[i] = all[PositionOf(r[i].id)]
            /\ \A i \in DOMAIN r, j \in DOMAIN all :
                  all[j].id \notin in => ~StrGreater(all[j].date_posted, r[i].date_posted)
            /\ \A i, j \in DOMAIN r :
                  i < j => /\ ~StrGreater(r[j].date_posted, r[i].date_posted)
                           /\ r[i].date_posted = r[j].date_posted
                                 => PositionOf(r[i].id) < PositionOf(r[j].id)
            /\ ( /\ [i \in DOMAIN all |-> all[i].date_posted]
                      = << DateStr(2024, 1, 1), DateStr(2024, 1, 5), DateStr(2024, 1, 3) >>
                 /\ ret.args = 2 )
               => [i \in DOMAIN r |-> r[i].date_posted]
                      = << DateStr(2024, 1, 5), DateStr(2024, 1, 3) >>

\* the example of the claim, and a result in which two records share a date
C7_Witness ==
    /\ ret.op = "get_recent_posts"
    /\ ret.args = 2
    /\ [i \in DOMAIN collection |-> collection[i].metadata.date_posted]
          = << DateStr(2024, 1, 1), DateStr(2024, 1, 5), DateStr(2024, 1, 3) >>

C7_WitnessTie ==
    /\ ret.op = "get_recent_posts"
    /\ Len(ret.value) = 2
    /\ ret.value[1].date_posted = ret.value[2].date_posted

(***************************************************************************)
(* Properties of search_similar_content (checked under SpecSearch).        *)
(***************************************************************************)

\* C6: search_similar_content(query, k) returns at most k results and at
\* least min(k, get_post_count()) (none on an empty store), each scored
\* 1 - distance, in descending order of similarity score.
C6_SearchResults ==
    ret.op = "search_similar_content" =>
        LET r == ret.value
            k == ret.args.limit
        IN  /\ Len(r) <= k
            /\ Len(r) >= Min(k, get_post_count)
            /\ get_post_count = 0 => r = <<>>
            /\ Len(ret.results) = Len(r)
            /\ \A i \in DOMAIN r :
                  LET at == PositionOf(ret.results[i].record.id)
                  IN  /\ r[i].similarity_score = 1 - ret.args.dist[at]
                      /\ r[i].post_data.caption = collection[at].document
            /\ \A i, j \in DOMAIN r :
                  i < j => r[i].similarity_score >= r[j].similarity_score

\* a search that cuts the store down to k results, the nearest record not
\* being the first one stored
C6_Witness ==
    /\ ret.op = "search_similar_content"
    /\ get_post_count = 3
    /\ ret.args.limit = 2
    /\ Len(ret.value) = 2
    /\ ret.args.dist = <<2, 1, 0>>
    /\ ret.value[1].similarity_score = 1
    /\ ret.value[2].similarity_score = 0

\* a search that asks for more than the store holds
C6_WitnessSmallStore ==
    /\ ret.op = "search_similar_content"
    /\ get_post_count = 1
    /\ ret.args.limit = 2
    /\ Len(ret.value) = 1

(***************************************************************************)
(* _analyze_posting_rhythm (src/app.py).  Day counts and the mean gap are  *)
(* exact numbers; the report prints the mean with one decimal.             *)
(***************************************************************************)

\* dates.sort(reverse=True) on datetimes: descending by day number
RECURSIVE InsertDesc(_, _)
InsertDesc(sorted, d) ==
    IF sorted = <<>> THEN <<d>>
    ELSE IF d > Head(sorted) THEN <<d>> \o sorted
    ELSE <<Head(sorted)>> \o InsertDesc(Tail(sorted), d)

RECURSIVE SortDesc(_)
SortDesc(ds) ==
    IF ds = <<>> THEN <<>> ELSE InsertDesc(SortDesc(Tail(ds)), Head(ds))

\* f"{x:.1f}" of x = num/den >= 0, as a count of tenths: the nearest tenth, and
\* of two equally near tenths the even one (such an x is a multiple of 1/4 and
\* is held exactly by the float)
Format1f(x) ==
    LET q == (10 * x.num) \div x.den
        r == (10 * x.num) % x.den
    IN  IF 2 * r < x.den THEN q
        ELSE IF 2 * r > x.den THEN q + 1
        ELSE IF q % 2 = 0 THEN q ELSE q + 1

\* days_since_last > avg_gap * 1.5
IsOverdue_not_less(days_since_last, avg_gap) ==
    2 * days_since_last * avg_gap.den >= 3 * avg_gap.num

IsOverdue(days_since_last, avg_gap) ==
    2 * days_since_last * avg_gap.den > 3 * avg_gap.num

NotEnoughPosts == [rhythm |-> "Not enough posts to analyze rhythm"]

\* now is the calendar day of datetime.now(); (now - date).days of a date at
\* midnight is the difference of the day numbers
analyze_posting_rhythm(recent_posts, now) ==
    IF Len(recent_posts) < 2 THEN NotEnoughPosts
    ELSE
      LET dates == SortDesc([i \in DOMAIN recent_posts |->
                                ToOrdinal(Strptime(recent_posts[i].date_posted))])
          days_since_last == ToOrdinal(now) - dates[1]
          gaps == [i \in 1..(Len(dates) - 1) |-> dates[i] - dates[i + 1]]
          avg_gap == Mean(gaps)
      IN  [ days_since_last_post |-> days_since_last,
            average_posting_frequency |-> [every_tenths_of_days |-> Format1f(avg_gap)],
            posting_status |->
                IF IsOverdue(days_since_last, avg_gap) THEN "overdue" ELSE "on_schedule" ]

RhythmDates ==
    { DateStr(2024, 1, 10), DateStr(2024, 1, 5), DateStr(2024, 1, 8),
      DateStr(2023, 12, 30), DateStr(2024, 3, 1) }

Nows == { Today, [year |-> 2024, month |-> 1, day |-> 13] }

RECURSIVE DateLists(_)
DateLists(n) ==
    IF n = 0 THEN { <<>> }
    ELSE DateLists(n - 1) \cup
         { Append(ds, [date_posted |-> d]) :
              ds \in { q \in DateLists(n - 1) : Len(q) = n - 1 }, d \in RhythmDates }

\* the call whose arguments were drawn in InitRhythm
CallAnalyzePostingRhythm ==
    /\ ret.op = "pending"
    /\ ret' = [op |-> "_analyze_posting_rhythm",
               args |-> ret.args,
               value |-> analyze_posting_rhythm(ret.args.recent_posts, ret.args.now)]
    /\ UNCHANGED <<collection, session, groupchat, recommendations, callers>>

InitRhythm ==
    /\ collection = <<>>
    /\ ret \in { [op |-> "pending", args |-> [recent_posts |-> recent_posts, now |-> now]] :
                    recent_posts \in DateLists(MaxRhythmPosts), now \in Nows }
    /\ session = NoSession
    /\ groupchat = <<>>
    /\ recommendations = NoRecommendations
    /\ callers = NoCallers

NextRhythm == CallAnalyzePostingRhythm

SpecRhythm == InitRhythm /\ [][NextRhythm]_vars

(***************************************************************************)
(* Properties of _analyze_posting_rhythm (checked under SpecRhythm).       *)
(***************************************************************************)
RhythmCall == ret.op = "_analyze_posting_rhythm"

DayNumbers == {ToOrdinal(Strptime(ret.args.recent_posts[i].date_posted)) :
                  i \in DOMAIN ret.args.recent_posts}

Newest == CHOOSE d \in DayNumbers : \A e \in DayNumbers : e <= d
Oldest == CHOOSE d \in DayNumbers : \A e \in DayNumbers : d <= e

\* the day gaps between consecutive dates, latest first, add up to
\* Newest - Oldest, and there is one gap less than there are records
GapSum == Newest - Oldest
GapCount == Len(ret.args.recent_posts) - 1

RhythmBasics ==
    LET n == Len(ret.args.recent_posts)
        days == ToOrdinal(ret.args.now) - Newest
    IN  IF n < 2 THEN ret.value = NotEnoughPosts
        ELSE /\ ret.value.days_since_last_post = days
             /\ ret.value.posting_status \in {"overdue", "on_schedule"}
             /\ ret.value.posting_status = "overdue" <=> 2 * days * GapCount > 3 * GapSum
             /\ ( /\ ret.args.recent_posts = << [date_posted |-> DateStr(2024, 1, 10)],
                                                [date_posted |-> DateStr(2024, 1, 5)] >>
                  /\ ret.args.now = [year |-> 2024, month |-> 1, day |-> 20] )
                => /\ ret.value.days_since_last_post = 10
                   /\ ret.value.average_posting_frequency.every_tenths_of_days = 50
                   /\ ret.value.posting_status = "overdue"

\* C8 as stated: below 2 records the insufficient-data marker; otherwise
\* days_since_last_post = today - newest date, the reported average is the
\* mean of the day gaps, and the status is 'overdue' exactly when
\* days_since_last_post > 1.5 x the mean gap.
C8_ReportsMeanGap ==
    RhythmCall =>
        /\ RhythmBasics
        /\ Len(ret.args.recent_posts) >= 2 =>
              ret.value.average_posting_frequency.every_tenths_of_days * GapCount = 10 * GapSum

\* C8 as amended: the reported average is the mean gap rounded to one decimal
\* (within half a tenth of the mean); the status is decided on the unrounded
\* mean.
C8_ReportsRoundedMeanGap ==
    RhythmCall =>
        /\ RhythmBasics
        /\ Len(ret.args.recent_posts) >= 2 =>
              LET t == ret.value.average_posting_frequency.every_tenths_of_days
              IN  /\ 2 * (t * GapCount - 10 * GapSum) <= GapCount
                  /\ 2 * (10 * GapSum - t * GapCount) <= GapCount

\* a call on the example of the claim, one on unsorted dates whose mean gap
\* has no one-decimal form, and one where days_since_last_post is exactly
\* 1.5 x the mean gap
C8_Witness ==
    /\ RhythmCall
    /\ Len(ret.args.recent_posts) = 4
    /\ ret.args.recent_posts[1].date_posted = DateStr(2024, 1, 5)
    /\ ret.args.recent_posts[2].date_posted = DateStr(2024, 1, 10)
    /\ (10 * GapSum) % GapCount # 0
    /\ ret.value.posting_status = "overdue"

C8_WitnessExample ==
    /\ RhythmCall
    /\ ret.args.recent_posts = << [date_posted |-> DateStr(2024, 1, 10)],
                                  [date_posted |-> DateStr(2024, 1, 5)] >>
    /\ ret.args.now = [year |-> 2024, month |-> 1, day |-> 20]

C8_WitnessThreshold ==
    /\ RhythmCall
    /\ Len(ret.args.recent_posts) >= 2
    /\ 2 * ret.value.days_since_last_post * GapCount = 3 * GapSum
    /\ ret.value.posting_status = "on_schedule"

(***************************************************************************)
(* Message texts.  A text is a sequence of segments, each a run of         *)
(* characters of one kind with its length:                                 *)
(*   "MARKER"  the characters 'FINAL RECOMMENDATION:' exactly,             *)
(*   "marker"  the same phrase in another letter case,                     *)
(*   "space"   whitespace,                                                 *)
(*   "text"    other characters, holding the phrase in no letter case.     *)
(***************************************************************************)
MarkerLen == 21

Seg(kind, n) == [kind |-> kind, len |-> n]

Marker == Seg("MARKER", MarkerLen)
MarkerOtherCase == Seg("marker", MarkerLen)

\* len(content)
StrLen(content) == SumSeq([i \in DOMAIN content |-> content[i].len])

\* content.upper()
Upper(content) ==
    [i \in DOMAIN content |->
        IF content[i].kind = "marker" THEN Marker ELSE content[i]]

\* 'FINAL RECOMMENDATION:' in content
Contains(content) == \E i \in DOMAIN content : content[i] = Marker

\* content.replace('FINAL RECOMMENDATION:', '')
Replace(content) == SelectSeq(content, LAMBDA seg : seg # Marker)

\* content.strip()
RECURSIVE LStrip(_)
LStrip(content) ==
    IF content # <<>> /\ Head(content).kind = "space" THEN LStrip(Tail(content)) ELSE content

RECURSIVE RStrip(_)
RStrip(content) ==
    IF content # <<>> /\ content[Len(content)].kind = "space"
    THEN RStrip(SubSeq(content, 1, Len(content) - 1))
    ELSE content

Strip(content) == RStrip(LStrip(content))

\* content[:n]; a phrase that is cut is no longer the phrase
RECURSIVE Slice(_, _)
Slice(content, n) ==
    IF content = <<>> \/ n <= 0 THEN <<>>
    ELSE IF Head(content).len <= n
         THEN << Head(content) >> \o Slice(Tail(content), n - Head(content).len)
         ELSE << Seg(IF Head(content).kind = "space" THEN "space" ELSE "text", n) >>

Ellipsis == << Seg("text", 3) >>

(***************************************************************************)
(* _extract_recommendations.                                               *)
(***************************************************************************)
Coordinator == "content_coordinator"
StorySpecialist == "story_specialist"
FeedSpecialist == "feed_specialist"

\* a specialist's turn counts when len(content) > MinRecLen and is cut to
\* MaxRecLen characters
MinRecLen == 100
MaxRecLen == 500

\* the reverse scan for the coordinator's turn holding the phrase
RECURSIVE FinalRecommendation(_)
FinalRecommendation(all_messages) ==
    IF all_messages = <<>> THEN <<>>
    ELSE LET msg == all_messages[Len(all_messages)]
         IN  IF msg.name = Coordinator /\ Contains(Upper(msg.content))
             THEN msg.content
             ELSE FinalRecommendation(SubSeq(all_messages, 1, Len(all_messages) - 1))

IsLong_or_equal(content) == StrLen(content) >= MinRecLen

IsLong(content) == StrLen(content) > MinRecLen

\* the cut without the dots that mark it
Shorten_without_ellipsis(content) ==
    IF StrLen(content) > MaxRecLen THEN Slice(content, MaxRecLen) ELSE content

\* content[:500] + "..." if len(content) > 500 else content
Shorten(content) ==
    IF StrLen(content) > MaxRecLen THEN Slice(content, MaxRecLen) \o Ellipsis ELSE content

\* the forward scan: every long enough turn of the agent overwrites the last
RECURSIVE AgentRec(_, _, _)
AgentRec(all_messages, name, rec) ==
    IF all_messages = <<>> THEN rec
    ELSE LET msg == Head(all_messages)
         IN  AgentRec(Tail(all_messages), name,
                      IF msg.name = name /\ IsLong(msg.content)
                      THEN Shorten(msg.content) ELSE rec)

\* the sections of the output string: a section is written when its text is
\* not empty before the phrase is taken out
extract_recommendations(all_messages) ==
    LET final_recommendation == FinalRecommendation(all_messages)
    IN  [ has_coordinated_strategy |-> final_recommendation # <<>>,
          coordinated_strategy |-> Strip(Replace(final_recommendation)),
          story_rec |-> AgentRec(all_messages, StorySpecialist, <<>>),
          feed_rec |-> AgentRec(all_messages, FeedSpecialist, <<>>) ]

Msg(name, content) == [name |-> name, content |-> content]

AgentNames == {Coordinator, StorySpecialist, FeedSpecialist}

Texts ==
    { << Seg("text", 40) >>,
      << Seg("text", MinRecLen) >>,
      << Seg("text", MinRecLen + 1) >>,
      << Seg("text", MaxRecLen + 1) >>,
      << Seg("space", 1), Marker, Seg("space", 1), Seg("text", 30), Seg("space", 2) >>,
      << Seg("text", 10), MarkerOtherCase, Seg("text", 130) >> }

RECURSIVE Transcripts(_)
Transcripts(n) ==
    IF n = 0 THEN { <<>> }
    ELSE Transcripts(n - 1) \cup
         { Append(t, Msg(name, content)) :
              t \in { u \in Transcripts(n - 1) : Len(u) = n - 1 },
              name \in AgentNames, content \in Texts }

\* the call on the chat_history drawn in InitExtract
CallExtractRecommendations ==
    /\ ret.op = "pending"
    /\ ret' = [op |-> "_extract_recommendations",
               args |-> ret.args,
               value |-> extract_recommendations(ret.args)]
    /\ UNCHANGED <<collection, session, groupchat, recommendations, callers>>

InitExtract ==
    /\ collection = <<>>
    /\ ret \in { [op |-> "pending", args |-> t] : t \in Transcripts(MaxTurns) }
    /\ session = NoSession
    /\ groupchat = <<>>
    /\ recommendations = NoRecommendations
    /\ callers = NoCallers

NextExtract == CallExtractRecommendations

SpecExtract == InitExtract /\ [][NextExtract]_vars

(***************************************************************************)
(* Properties of _extract_recommendations (checked under SpecExtract).     *)
(***************************************************************************)
NothingExtracted ==
    [ has_coordinated_strategy |-> FALSE, coordinated_strategy |-> <<>>,
      story_rec |-> <<>>, feed_rec |-> <<>> ]

\* C9: on a transcript with no coordinator turn holding the termination
\* marker and no specialist turn longer than the length threshold (the empty
\* transcript included) the extractor yields the all-empty result: no
\* coordinated strategy, no story and no feed recommendation.
C9_NothingToExtract ==
    ( /\ ret.op = "_extract_recommendations"
      /\ \A i \in DOMAIN ret.args :
            /\ ~(ret.args[i].name = Coordinator /\ Contains(Upper(ret.args[i].content)))
            /\ ~(ret.args[i].name \in {StorySpecialist, FeedSpecialist}
                    /\ StrLen(ret.args[i].content) > MinRecLen) )
    => ret.value = NothingExtracted

\* a transcript of short turns, one of them a specialist's turn of exactly
\* the threshold length, another a specialist's turn holding the marker
C9_Witness ==
    /\ ret.op = "_extract_recommendations"
    /\ Len(ret.args) = 3
    /\ ret.args[1] = Msg(StorySpecialist, << Seg("text", MinRecLen) >>)
    /\ ret.args[2].name = FeedSpecialist /\ Contains(ret.args[2].content)
    /\ ret.args[3] = Msg(Coordinator, << Seg("text", 40) >>)
    /\ ret.value = NothingExtracted

C9_WitnessEmpty ==
    /\ ret.op = "_extract_recommendations"
    /\ ret.args = <<>>
    /\ ret.value = NothingExtracted

(***************************************************************************)
(* get_next_post_recommendations and the group chat it starts.             *)
(*                                                                         *)
(* The coordinator opens the chat by sending the briefing to the manager   *)
(* of a GroupChat of the three agents with max_round = 8 and "auto"        *)
(* speaker selection.  The manager appends each message to the transcript  *)
(* and passes it to the other agents, stops once max_round messages are    *)
(* held, and otherwise lets the selected agent reply.  The predicate       *)
(* is_termination_msg is given to the coordinator agent (not to the        *)
(* manager): an agent applies it to the last message of its conversation   *)
(* when it is asked for a reply.  When it matches, the coordinator, left   *)
(* at the default input mode, asks the operator for input: with no input   *)
(* it gives no reply and the chat ends, with input that input is its turn. *)
(* chat_result.chat_history is the coordinator's view of the chat, which   *)
(* holds every message of the transcript.                                  *)
(* The manager's own predicate is the library default (a message that is  *)
(* the word TERMINATE and nothing else); no text drawn below is that.      *)
(***************************************************************************)
max_round == 8

\* the lambda given as is_termination_msg
is_termination_msg(x) == Contains(Upper(x.content))

\* the briefing, sent in the coordinator's name
Briefing == << Seg("text", 900) >>

\* what the generation capability may answer for an agent
Generated(agent) ==
    IF agent = Coordinator
    THEN { << Seg("text", 40) >>,
           << Seg("text", 150), Seg("space", 1), Marker, Seg("space", 1), Seg("text", 200) >> }
    ELSE IF agent = StorySpecialist
    THEN { << Seg("text", 30), Seg("space", 1), MarkerOtherCase, Seg("text", 80) >> }
    ELSE { << Seg("text", 120) >> }

\* what the operator may type when asked for input
OperatorInput == << Seg("text", 12) >>

LastMessage == groupchat[Len(groupchat)]

\* the return at line 178 with the finished session's chat history
Returned(chat_history) ==
    [kind |-> "returned", output |-> extract_recommendations(chat_history)]

\* the manager's handling of a message: append it; with max_round messages
\* the chat is over and get_next_post_recommendations returns the extraction
Appended(name, content) ==
    LET messages == Append(groupchat, Msg(name, content))
    IN  /\ groupchat' = messages
        /\ IF Len(messages) >= max_round
           THEN /\ session' = "ROUND_LIMIT_REACHED"
                /\ recommendations' = Returned(messages)
           ELSE /\ session' = "IN_PROGRESS"
                /\ UNCHANGED recommendations

\* lines 107-112: nothing stored, no chat
NoPostsInDatabase ==
    /\ session = "NOT_STARTED"
    /\ recommendations = NoRecommendations
    /\ get_content_analysis = <<>>
    /\ recommendations' = [kind |-> "returned", output |-> "No posts in database"]
    /\ UNCHANGED <<collection, ret, session, groupchat, callers>>

\* lines 173-176: coordinator.initiate_chat(recipient=manager, message=briefing)
InitiateChat ==
    /\ session = "NOT_STARTED"
    /\ get_content_analysis # <<>>
    /\ Appended(Coordinator, Briefing)
    /\ UNCHANGED <<collection, ret, callers>>

\* a round: the selected agent generates a reply and the manager takes it
AgentReplies ==
    /\ session = "IN_PROGRESS"
    /\ \E speaker \in AgentNames :
          /\ ~(speaker = Coordinator /\ is_termination_msg(LastMessage))
          /\ \E content \in Generated(speaker) : Appended(speaker, content)
    /\ UNCHANGED <<collection, ret, callers>>

\* the coordinator is selected while the last message satisfies its
\* predicate, and the operator gives no input: no reply, the chat ends
CoordinatorStops ==
    /\ session = "IN_PROGRESS"
    /\ is_termination_msg(LastMessage)
    /\ session' = "TERMINATED_BY_COORDINATOR"
    /\ recommendations' = Returned(groupchat)
    /\ UNCHANGED <<collection, ret, groupchat, callers>>

\* the same, and the operator types a reply: it is the coordinator's turn
OperatorReplies ==
    /\ session = "IN_PROGRESS"
    /\ is_termination_msg(LastMessage)
    /\ Appended(Coordinator, OperatorInput)
    /\ UNCHANGED <<collection, ret, callers>>

\* the exception of a failed generation leaves initiate_chat and
\* get_next_post_recommendations: nothing catches it, line 178 is not reached
GenerationFails_returning_partial ==
    /\ session = "IN_PROGRESS"
    /\ session' = "FAILED"
    /\ recommendations' = Returned(groupchat)
    /\ UNCHANGED <<collection, ret, groupchat, callers>>

GenerationFails ==
    /\ session = "IN_PROGRESS"
    /\ session' = "FAILED"
    /\ recommendations' = [kind |-> "raised"]
    /\ UNCHANGED <<collection, ret, groupchat, callers>>

InitChat ==
    /\ collection \in { StoreOf(ps) : ps \in PostLists(1) }
    /\ ret = NoCall
    /\ session = "NOT_STARTED"
    /\ groupchat = <<>>
    /\ recommendations = NoRecommendations
    /\ callers = NoCallers

NextChat ==
    \/ NoPostsInDatabase
    \/ InitiateChat
    \/ AgentReplies
    \/ CoordinatorStops
    \/ OperatorReplies
    \/ GenerationFails

SpecChat == InitChat /\ [][NextChat]_vars

(***************************************************************************)
(* Properties of the deliberation session (checked under SpecChat).        *)
(***************************************************************************)
SessionOver == session \in {"TERMINATED_BY_COORDINATOR", "ROUND_LIMIT_REACHED"}

\* a turn spoken by the coordinator after the briefing that holds the marker
CoordinatorMarkerAt(i) ==
    /\ i > 1
    /\ groupchat[i].name = Coordinator
    /\ is_termination_msg(groupchat[i])

\* C2: a session with max_round = 8 in which no coordinator utterance holds
\* the termination marker ends in ROUND_LIMIT_REACHED, with a transcript of
\* exactly the rounds attempted and never more than the round limit.
C2_EndsAtRoundLimit ==
    /\ Len(groupchat) <= max_round
    /\ ( /\ SessionOver
         /\ \A i \in DOMAIN groupchat :
               ~(groupchat[i].name = Coordinator /\ is_termination_msg(groupchat[i])) )
       => /\ session = "ROUND_LIMIT_REACHED"
          /\ Len(groupchat) = max_round

\* C3: once a coordinator turn holds the marker the session ends in
\* TERMINATED_BY_COORDINATOR right after that turn: no turn of any agent
\* follows it in the transcript, whatever round budget remains.
C3_EndsAfterCoordinatorMarker ==
    /\ \A i \in DOMAIN groupchat : CoordinatorMarkerAt(i) => i = Len(groupchat)
    /\ ( SessionOver /\ \E i \in DOMAIN groupchat : CoordinatorMarkerAt(i) )
       => session = "TERMINATED_BY_COORDINATOR"

\* C10: when the generation fails on a turn, get_next_post_recommendations
\* raises to its caller and returns nothing: the extractor is not run on the
\* partial transcript; a recommendation is returned only by a session that
\* ended.
C10_FailureIsSurfaced ==
    /\ session = "FAILED" => recommendations = [kind |-> "raised"]
    /\ (recommendations.kind = "returned" /\ groupchat # <<>>) => SessionOver

\* a failure after a specialist's turn that the extractor would have used
C10_Witness ==
    /\ session = "FAILED"
    /\ Len(groupchat) >= 3
    /\ extract_recommendations(groupchat).feed_rec # <<>>
    /\ recommendations = [kind |-> "raised"]

(***************************************************************************)
(* Ingestion from several callers.  add_post takes no lock and reads       *)
(* nothing of the store: a caller draws its id (line 36), computes the     *)
(* embedding, and then writes (lines 43-53).  Between the two steps of one *)
(* caller any step of another caller can run.  uuid4 is modelled by its    *)
(* contract: the id it returns was returned by no earlier call, so         *)
(* collection.add never meets an id that is already stored.                *)
(***************************************************************************)
MaxCallers == 2

Callers == 1..MaxCallers

Idle == [pc |-> "idle"]

InProgress == {c \in DOMAIN callers : callers[c].pc = "id_drawn"}

\* the ids drawn by calls that have not written yet
DrawnIds == {callers[c].post_id : c \in InProgress}

\* uuid.uuid4(): any id that no earlier call was given
uuid4 == Ids \ (UsedIds \cup DrawnIds)

\* add_post, line 36: caller c enters with post_data and draws its id
AddPostDrawsId(c, post_data) ==
    /\ callers[c] = Idle
    /\ Len(collection) + Cardinality(InProgress) < MaxPosts
    /\ \E post_id \in uuid4 :
          callers' = [callers EXCEPT ![c] = [ pc        |-> "id_drawn",
                                              post_id   |-> post_id,
                                              post_data |-> post_data ]]
    /\ UNCHANGED <<collection, ret, session, groupchat, recommendations>>

\* add_post, lines 43-55: caller c writes its record and returns the id
AddPostWrites(c) ==
    /\ c \in InProgress
    /\ collection' = collection_add(callers[c].post_id, callers[c].post_data)
    /\ ret' = [op |-> "add_post", args |-> callers[c].post_data,
               value |-> callers[c].post_id]
    /\ callers' = [callers EXCEPT ![c] = Idle]
    /\ UNCHANGED <<session, groupchat, recommendations>>

InitCallers ==
    /\ collection = <<>>
    /\ ret = NoCall
    /\ session = NoSession
    /\ groupchat = <<>>
    /\ recommendations = NoRecommendations
    /\ callers = [c \in Callers |-> Idle]

NextCallers ==
    \/ \E c \in Callers, post_data \in PostInputs : AddPostDrawsId(c, post_data)
    \/ \E c \in Callers : AddPostWrites(c)

SpecCallers == InitCallers /\ [][NextCallers]_vars

DistinctIds(coll) ==
    \A i, j \in DOMAIN coll : i # j => coll[i].id # coll[j].id

\* C11: whatever the interleaving of add_post calls, after every step the
\* ids in the store are pairwise distinct, and every record that was stored
\* before the step is stored after it with the same id, caption, type,
\* engagement, hashtags and date_posted.
C11_IdsDistinctRecordsKept ==
    [][ /\ DistinctIds(collection')
        /\ \A i \in DOMAIN collection :
              \E j \in DOMAIN collection' :
                 /\ collection'[j].id = collection[i].id
                 /\ collection'[j].document = collection[i].document
                 /\ collection'[j].metadata.type = collection[i].metadata.type
                 /\ collection'[j].metadata.engagement = collection[i].metadata.engagement
                 /\ json_loads(collection'[j].metadata.hashtags)
                       = json_loads(collection[i].metadata.hashtags)
                 /\ collection'[j].metadata.date_posted
                       = collection[i].metadata.date_posted ]_vars

\* two calls are under way at once, each holding its id, next to a record
\* that an earlier call has written
C11_Witness ==
    /\ Len(collection) >= 1
    /\ \E c, d \in InProgress : c # d
    /\ ret.op = "add_post"

(***************************************************************************)
(* The extracted sections, stated over the transcript.                     *)
(***************************************************************************)
ExtractCall == ret.op = "_extract_recommendations"

\* the turns of the coordinator that hold the marker in any letter case
MarkerTurns(all_messages) ==
    { i \in DOMAIN all_messages :
         /\ all_messages[i].name = Coordinator
         /\ \E k \in DOMAIN all_messages[i].content :
               all_messages[i].content[k].kind \in {"MARKER", "marker"} }

Latest(turns) == CHOOSE i \in turns : \A j \in turns : j <= i

\* the text without the marker, in whichever letter case it is written
WithoutMarker(content) ==
    SelectSeq(content, LAMBDA seg : seg.kind \notin {"MARKER", "marker"})

\* C12: the coordinated strategy is the text of the latest coordinator turn
\* that holds the marker in any letter case, with the marker removed and
\* the surrounding whitespace trimmed, and it is empty when there is no
\* such turn.
C12_CoordinatedStrategy ==
    ExtractCall =>
        LET turns == MarkerTurns(ret.args)
        IN  ret.value.coordinated_strategy =
               IF turns = {} THEN <<>>
               ELSE Strip(WithoutMarker(ret.args[Latest(turns)].content))

\* the turns of the named specialist that are longer than MinRecLen
LongTurns(all_messages, name) ==
    { i \in DOMAIN all_messages :
         /\ all_messages[i].name = name
         /\ StrLen(all_messages[i].content) > MinRecLen }

\* pre is the first StrLen(pre) characters of content: whole segments of
\* content, then possibly the beginning of the next one
IsPrefix(pre, content) ==
    /\ Len(pre) <= Len(content)
    /\ \A k \in DOMAIN pre :
          IF k < Len(pre) \/ pre[k].len = content[k].len
          THEN pre[k] = content[k]
          ELSE /\ pre[k].len < content[k].len
               /\ pre[k].kind = IF content[k].kind = "space" THEN "space" ELSE "text"

\* rec is content itself, or its first MaxRecLen characters and three dots
IsCutOf(rec, content) ==
    IF StrLen(content) <= MaxRecLen
    THEN rec = content
    ELSE /\ rec # <<>>
         /\ rec[Len(rec)] = Seg("text", 3)
         /\ StrLen(rec) = MaxRecLen + 3
         /\ IsPrefix(SubSeq(rec, 1, Len(rec) - 1), content)

IsRecommendationOf(rec, all_messages, name) ==
    LET turns == LongTurns(all_messages, name)
    IN  IF turns = {}
        THEN rec = <<>>
        ELSE IsCutOf(rec, all_messages[Latest(turns)].content)

\* C13: for each specialist the recommendation is the last turn of that
\* specialist longer than 100 characters, whatever shorter turns of the
\* specialist follow it, cut to its first 500 characters and '...' when it
\* is longer than 500 and unchanged otherwise; with no such turn it is
\* empty.
C13_SpecialistRecommendations ==
    ExtractCall =>
        /\ IsRecommendationOf(ret.value.story_rec, ret.args, StorySpecialist)
        /\ IsRecommendationOf(ret.value.feed_rec, ret.args, FeedSpecialist)

\* a specialist's turn of more than 500 characters is followed by a
\* shorter turn of the same specialist, and the first one is reported, cut
C13_Witness ==
    /\ ExtractCall
    /\ \E i, j \in DOMAIN ret.args :
          /\ i < j
          /\ ret.args[i].name = StorySpecialist
          /\ ret.args[j].name = StorySpecialist
          /\ StrLen(ret.args[i].content) > MaxRecLen
          /\ StrLen(ret.args[j].content) <= MinRecLen
    /\ StrLen(ret.value.story_rec) = MaxRecLen + 3

\* two long turns of one specialist: the later, uncut one is reported
C13_WitnessLaterTurn ==
    /\ ExtractCall
    /\ Len(ret.args) >= 2
    /\ ret.args[1].name = FeedSpecialist
    /\ ret.args[2].name = FeedSpecialist
    /\ StrLen(ret.args[1].content) > MaxRecLen
    /\ StrLen(ret.args[2].content) = MinRecLen + 1
    /\ ret.value.feed_rec = ret.args[2].content

====
